---- MODULE Spec2Model ----
(***************************************************************************)
(* A model of five parts of huggingface_hub.  snapshot_download: the cache  *)
(* resolver that names a storage folder for (repo_id, revision), resolves  *)
(* the revision online (HfApi.model_info) or offline (glob over the cache  *)
(* directory), and fetches every file of the snapshot with                 *)
(* cached_download.  utils/_safetensors.py: the metadata dataclasses and   *)
(* their reader.  _inference_endpoints.py: the InferenceEndpoint object.   *)
(* repocard.py: the update of a model card's metadata.  fastai_utils.py:   *)
(* the check of the installed fastai and fastcore versions.                *)
(*                                                                         *)
(* Strings are sequences of one-character strings, so that flattening,     *)
(* concatenation, glob matching and split(".") are computed character by   *)
(* character.  File names inside a repository are sequences of tokens, the *)
(* token ".lock" standing for the five characters of that suffix.          *)
(* Paths are kept relative to cache_dir: a storage folder is named by the  *)
(* last component of os.path.join(cache_dir, name).                        *)
(***************************************************************************)
EXTENDS Integers, Sequences, FiniteSets, TLC

(***************************************************************************)
(* Bounds                                                                  *)
(***************************************************************************)
MaxOnline == 2
MaxOffline == 1
MaxClock == 1
\* InferenceEndpoint.wait: the greatest timeout and refresh_every, in seconds,
\* and the number of fetches that are counted
MaxTimeout == 2
MaxRefresh == 2
MaxFetches == 3
\* repocard: the greatest number of metrics in a list
MaxMetrics == 2
\* repocard: the greatest number of results in the model-index of a card
MaxResults == 2

Procs == {1, 2}

(***************************************************************************)
(* Program constants                                                       *)
(***************************************************************************)
REPO_ID_SEPARATOR == <<"_", "_">>
DEFAULT_REVISION == <<"m">>
None == <<"N", "o", "n", "e">>
LockSuffix == <<".lock">>

(***************************************************************************)
(* Input domains                                                           *)
(***************************************************************************)
\* "o/m", "o/m.1", the empty repo id, and an id holding the separator
RepoIds == { <<"o", "/", "m">>, <<"o", "/", "m", ".", "1">>, <<>>,
             <<"o", "_", "_", "m">> }
\* the repositories the remote service knows
RemoteRepos == { <<"o", "/", "m">>, <<"o", "/", "m", ".", "1">> }
\* commit identifiers (no "." and no "/" in them)
Shas == { <<"s">>, <<"t">> }
\* symbolic revisions of the remote repositories: branch "m", tag "1"
Branch == <<"m">>
Tag == <<"1">>
RevisionArgs == { None, Branch, Tag } \cup Shas
\* file listings a commit can have
FileA == <<"a">>
FileALock == <<"a", ".lock">>
FileDB == <<"d", "/", "b">>
Listings == { <<>>, <<FileALock, FileA>>, <<FileA, FileALock>>, <<FileDB, FileA>> }

(***************************************************************************)
(* String helpers                                                          *)
(***************************************************************************)
Dot == <<".">>
Star == "*"

RECURSIVE Replace(_, _, _)
\* str.replace(old, new) for a one-character old
Replace(s, old, new) ==
    IF s = <<>> THEN <<>>
    ELSE (IF Head(s) = old THEN new ELSE <<Head(s)>>) \o Replace(Tail(s), old, new)

RECURSIVE Contains(_, _)
\* sub in s
Contains(s, sub) ==
    IF Len(s) < Len(sub) THEN FALSE
    ELSE SubSeq(s, 1, Len(sub)) = sub \/ Contains(Tail(s), sub)

RECURSIVE Split(_, _)
\* str.split(sep) for a one-character sep: the sequence of components
Split(s, sep) ==
    IF \A i \in 1..Len(s) : s[i] # sep THEN <<s>>
    ELSE LET k == CHOOSE i \in 1..Len(s) :
                     s[i] = sep /\ \A j \in 1..(i-1) : s[j] # sep
         IN <<SubSeq(s, 1, k-1)>> \o Split(SubSeq(s, k+1, Len(s)), sep)

RECURSIVE Join(_, _)
\* os.path.join(*parts) / sep.join(parts) for non-empty relative parts
Join(parts, sep) ==
    IF Len(parts) = 0 THEN <<>>
    ELSE IF Len(parts) = 1 THEN parts[1]
    ELSE parts[1] \o <<sep>> \o Join(Tail(parts), sep)

RECURSIVE Fnmatch(_, _)
\* glob matching of one path component; "*" matches any run of characters
Fnmatch(pat, name) ==
    IF pat = <<>> THEN name = <<>>
    ELSE IF Head(pat) = Star
         THEN \E k \in 0..Len(name) :
                 Fnmatch(Tail(pat), SubSeq(name, k+1, Len(name)))
         ELSE /\ name # <<>>
              /\ Head(name) = Head(pat)
              /\ Fnmatch(Tail(pat), Tail(name))

\* all orders in which a directory listing can enumerate a set
Perms(S) ==
    { f \in [1..Cardinality(S) -> S] :
        \A i, j \in 1..Cardinality(S) : i # j => f[i] # f[j] }

(***************************************************************************)
(* State                                                                   *)
(***************************************************************************)
VARIABLES
    head,       \* remote: the commit the branch currently points at
    siblings,   \* remote: commit -> ordered file listing (model_info.siblings)
    folders,    \* cache_dir: names of the directories directly under it
    subdirs,    \* cache_dir: <<folder, dir>> nested directories
    files,      \* cache_dir: <<folder, path>> -> content of each regular file
    mtime,      \* cache_dir: folder -> modification time of the directory
    clock,      \* the filesystem clock
    call,       \* per caller: the running snapshot_download call
    prev,       \* per caller: its previous, finished call
    ncalls,     \* number of calls started so far, online and offline
    scenario,   \* the inputs and faults the specification explores
    meta,       \* safetensors: the last SafetensorsRepoMetadata value built, or error
    server,     \* inference endpoint: the raw description the server holds
    endpoint,   \* inference endpoint: the client's InferenceEndpoint object
    waiter,     \* inference endpoint: the running InferenceEndpoint.wait call
    made,       \* inference endpoint: the last result of client or async_client
    card,       \* repocard: the running or finished call on a model card
    fastai      \* fastai_utils: the installed libraries and the last version check

vars == <<head, siblings, folders, subdirs, files, mtime, clock, call, prev, ncalls,
          scenario, meta, server, endpoint, waiter, made, card, fastai>>
\* the inference endpoint, its server and its waiting caller
inference == <<server, endpoint, waiter, made>>
\* the model card being edited and the fastai environment
library == <<card, fastai>>
\* the state of the components snapshot_download does not touch
elsewhere == <<meta, inference, library>>
\* the state snapshot_download works on
snapshot == <<head, siblings, folders, subdirs, files, mtime, clock, call, prev, ncalls,
              scenario>>
remote == <<head, siblings, scenario>>
cache == <<folders, subdirs, files, mtime>>

\* no SafetensorsRepoMetadata value built yet
IdleMeta == [ pc |-> "idle" ]
\* no call on a model card yet
IdleCard == [ pc |-> "idle" ]
\* neither fastai nor fastcore installed, no check made yet
NoFastai == [ pc |-> "idle", fastai_version |-> <<"N", "/", "A">>,
              fastcore_version |-> <<"N", "/", "A">> ]

\* content of a lock artifact, as opposed to a commit's content
LockContent == <<"l">>

(***************************************************************************)
(* Filesystem helpers                                                      *)
(***************************************************************************)
\* os.path.exists(os.path.join(folder, path))
Exists(folder, path) ==
    \/ <<folder, path>> \in DOMAIN files
    \/ <<folder, path>> \in subdirs
    \/ (path = <<>> /\ folder \in folders)

\* the entry of `folder` that holds `path`: its first component
TopEntry(path) == Split(path, "/")[1]

\* os.listdir(folder) as a set
ListDir(folder) ==
    { TopEntry(k[2]) : k \in { x \in DOMAIN files \cup subdirs : x[1] = folder } }

\* a path directly inside the folder changes the folder's mtime
IsTopLevel(path) == Len(Split(path, "/")) = 1

\* os.path.dirname of a relative path, "" for a top-level one
Dirname(path) ==
    LET parts == Split(path, "/")
    IN Join(SubSeq(parts, 1, Len(parts) - 1), "/")

\* the directories os.makedirs(dirname) has to find or create below the folder
Ancestors(path) ==
    LET parts == Split(path, "/")
    IN { Join(SubSeq(parts, 1, k), "/") : k \in 1..(Len(parts) - 1) }

WriteFiles(fs, key, content) ==
    [ x \in DOMAIN fs \cup {key} |-> IF x = key THEN content ELSE fs[x] ]

RemoveFiles(fs, key) == [ x \in DOMAIN fs \ {key} |-> fs[x] ]

SetMtime(mt, folder, t) ==
    [ x \in DOMAIN mt \cup {folder} |-> IF x = folder THEN t ELSE mt[x] ]

(***************************************************************************)
(* snapshot_download: names                                                *)
(***************************************************************************)
\* line 51-52: revision defaults to DEFAULT_REVISION
Revision(arg) == IF arg = None THEN DEFAULT_REVISION ELSE arg

\* a flattening that substitutes a single underscore
Mut_RepoIdFlattened(repo_id) == Replace(repo_id, "/", <<"_">>)

\* line 68: repo_id.replace("/", REPO_ID_SEPARATOR)
RepoIdFlattened(repo_id) == Replace(repo_id, "/", REPO_ID_SEPARATOR)

\* a storage folder that leaves the resolved commit out of the name
Mut_StorageFolderNoSha(repo_id, revision, sha) ==
    RepoIdFlattened(repo_id) \o Dot \o revision

\* a storage folder named after the repository alone
Mut_StorageFolderRepoOnly(repo_id, revision, sha) ==
    RepoIdFlattened(repo_id) \o Dot \o <<"x">>

\* line 132-139: the storage folder of an online call
StorageFolderOnline(repo_id, revision, sha) ==
    LET base == RepoIdFlattened(repo_id) \o Dot \o revision
    IN IF revision # sha THEN base \o Dot \o sha ELSE base

\* a glob that leaves the revision out of the pattern
Mut_RepoFoldersBranch(prefix, revision) ==
    { f \in folders : Fnmatch(prefix \o Dot \o <<Star>>, f) }

\* line 80: glob(prefix + "." + revision + ".*")
RepoFoldersBranch(prefix, revision) ==
    { f \in folders : Fnmatch(prefix \o Dot \o revision \o Dot \o <<Star>>, f) }

\* line 84: glob(prefix + "." + revision)
RepoFoldersCommitOnly(prefix, revision) ==
    { f \in folders : Fnmatch(prefix \o Dot \o revision, f) }

\* line 88: glob(prefix + ".*." + revision)
RepoFoldersBranchCommit(prefix, revision) ==
    { f \in folders : Fnmatch(prefix \o Dot \o <<Star>> \o Dot \o revision, f) }

\* line 91-93
RepoFolders(prefix, revision) ==
    RepoFoldersBranch(prefix, revision)
        \cup RepoFoldersCommitOnly(prefix, revision)
        \cup RepoFoldersBranchCommit(prefix, revision)

\* line 106-108: glob(prefix + ".*") minus glob(prefix + ".*.*")
RepoFoldersCommitAny(prefix) ==
    { f \in folders : Fnmatch(prefix \o Dot \o <<Star>>, f) }
        \ { f \in folders : Fnmatch(prefix \o Dot \o <<Star>> \o Dot \o <<Star>>, f) }

\* a warning that looks at the commit-only shape alone
Mut_WarnCondition(prefix, revision) ==
    /\ RepoFoldersCommitAny(prefix) # {}
    /\ RepoFoldersCommitOnly(prefix, revision) = {}

\* line 109-112: the condition of the staleness warning
WarnCondition(prefix, revision) ==
    /\ RepoFoldersCommitAny(prefix) # {}
    /\ RepoFoldersCommitOnly(prefix, revision)
           \cup RepoFoldersBranchCommit(prefix, revision) = {}

\* the least recently modified folder
Mut_LastModified(candidates) ==
    { f \in candidates : \A g \in candidates : mtime[f] <= mtime[g] }

\* line 122: max(repo_folders, key=os.path.getmtime); any maximal one on a tie
LastModified(candidates) ==
    { f \in candidates : \A g \in candidates : mtime[g] <= mtime[f] }

\* line 125: storage_folder.split(".")[-1]
LastComponent(name) == LET parts == Split(name, ".") IN parts[Len(parts)]

\* line 146: os.path.join(*model_file.split("/"))
RelativeFilepath(model_file) == Join(Split(model_file, "/"), "/")

\* line 168: path + ".lock"
LockPath(path) == path \o LockSuffix

(***************************************************************************)
(* The remote service (HfApi.model_info)                                   *)
(***************************************************************************)
\* the commits a revision of a repository can resolve to (none: lookup fails)
ResolvedSha(repo_id, revision) ==
    IF repo_id \notin RemoteRepos THEN {}
    ELSE IF revision \in Shas THEN {revision}
    ELSE IF revision = Branch THEN {head}
    ELSE IF revision = Tag THEN {<<"s">>}
    ELSE {}

\* the errors a lookup can end with: the network is unreachable, or the remote
\* service does not know the repository or the revision
LookupErrors(repo_id, revision) ==
    {"ConnectionError"}
        \cup (IF repo_id \notin RemoteRepos THEN {"RepositoryNotFoundError"}
              ELSE IF ResolvedSha(repo_id, revision) = {} THEN {"RevisionNotFoundError"}
              ELSE {})

\* what model_info reports for a commit: its sha and its file names
ModelFilesOnline(sha) == siblings[sha]

(***************************************************************************)
(* Calls                                                                   *)
(***************************************************************************)
IdleCall ==
    [ pc |-> "idle", repo_id |-> <<>>, revision |-> <<>>,
      local_files_only |-> FALSE, storage_folder |-> <<>>,
      repo_id_sha |-> <<>>, model_files |-> <<>>, idx |-> 1, error |-> "",
      \* history of the call, for stating properties
      remoteError |-> "", lookups |-> 0, listings |-> 0, dlCalls |-> 0, offlineDl |-> TRUE,
      urls |-> {}, written |-> {}, removed |-> {}, created |-> {},
      present0 |-> {}, candidates |-> {}, warned |-> FALSE ]

Finished(c) == c.pc \in {"idle", "returned", "raised"}

\* what is remembered of a caller's previous call: the calls that reached the
\* fetch step; a call that failed before it leaves nothing to compare with
NoCall ==
    [ pc |-> "idle", repo_id |-> <<>>, revision |-> <<>>,
      local_files_only |-> FALSE, storage_folder |-> <<>>, repo_id_sha |-> <<>> ]

Summary(c) ==
    IF c.pc = "raised" /\ c.error # "DownloadError" THEN NoCall ELSE
    [ pc |-> c.pc, repo_id |-> c.repo_id, revision |-> c.revision,
      local_files_only |-> c.local_files_only,
      storage_folder |-> c.storage_folder, repo_id_sha |-> c.repo_id_sha ]

\* the file the loop is at, lines 144-146
ModelFile(c) == c.model_files[c.idx]

\* a url that names the revision the caller asked for
Mut_UrlRevision(c) == c.revision

\* line 145: hf_hub_url(repo_id, filename=model_file, revision=repo_id_sha)
UrlRevision(c) == c.repo_id_sha

\* the url of the file the loop is at: repository, file and revision
Url(c) == <<c.repo_id, ModelFile(c), UrlRevision(c)>>

\* the commit whose content the remote serves for a url, when it is asked
ServedCommit(url) ==
    IF ResolvedSha(url[1], url[3]) = {} THEN url[3]
    ELSE CHOOSE sha \in ResolvedSha(url[1], url[3]) : TRUE
Path(c) == RelativeFilepath(ModelFile(c))

\* line 144: the files the loop still has to visit after this one
NextIdx(c) == c.idx + 1

\* lines 19-68: the call starts; arguments are normalised, nothing is read
CallStart(p, repo_id, revision, local_files_only) ==
    /\ p \in scenario.callers
    /\ Finished(call[p])
    /\ IF local_files_only
       THEN ncalls.offline < MaxOffline
               /\ ncalls' = [ncalls EXCEPT !.offline = @ + 1]
       ELSE ncalls.online < MaxOnline
               /\ ncalls' = [ncalls EXCEPT !.online = @ + 1]
    /\ prev' = [prev EXCEPT ![p] = Summary(call[p])]
    /\ call' = [call EXCEPT ![p] =
                  [IdleCall EXCEPT !.pc = IF local_files_only THEN "offline" ELSE "online",
                                   !.repo_id = repo_id,
                                   !.revision = Revision(revision),
                                   !.local_files_only = local_files_only]]
    /\ UNCHANGED <<elsewhere, remote, cache, clock>>

\* a lookup that is tried again after a failure
Mut_OnLookupFailure(c, e) ==
    [c EXCEPT !.remoteError = e, !.lookups = c.lookups + 1]

\* line 130: model_info raises e; nothing catches it, the call ends with e
OnLookupFailure(c, e) ==
    [c EXCEPT !.pc = "raised",
              !.error = e,
              !.remoteError = e,
              !.lookups = c.lookups + 1]

\* lines 127-142: the online branch, one call of HfApi.model_info
ModelInfo(p) ==
    LET c == call[p] IN
    /\ c.pc = "online"
    /\ \/ \* the lookup fails: repo or revision not found, network unreachable
          \E e \in LookupErrors(c.repo_id, c.revision) :
             call' = [call EXCEPT ![p] = OnLookupFailure(c, e)]
       \/ \E sha \in ResolvedSha(c.repo_id, c.revision) :
            LET sf == StorageFolderOnline(c.repo_id, c.revision, sha)
                mf == ModelFilesOnline(sha)
            IN call' = [call EXCEPT ![p] =
                          [c EXCEPT !.pc = "loop",
                                    !.lookups = c.lookups + 1,
                                    !.storage_folder = sf,
                                    !.repo_id_sha = sha,
                                    !.model_files = mf,
                                    !.idx = 1,
                                    !.present0 =
                                        { mf[i] : i \in { j \in 1..Len(mf) :
                                            <<sf, RelativeFilepath(mf[j])>> \in DOMAIN files } }]]
    /\ UNCHANGED <<elsewhere, remote, cache, clock, prev, ncalls>>

\* a miss that falls back to the online branch
Mut_OnNoCachedSnapshot(c) == [c EXCEPT !.pc = "online", !.listings = c.listings + 1]

\* lines 95-100: no cached folder matches, the call raises ValueError
OnNoCachedSnapshot(c) ==
    [c EXCEPT !.pc = "raised",
              !.error = "ValueError: no cached snapshot",
              !.listings = c.listings + 1]

\* lines 72-126: the offline branch, globbing the cache directory
OfflineResolve(p) ==
    LET c == call[p]
        prefix == RepoIdFlattened(c.repo_id)
        repo_folders == RepoFolders(prefix, c.revision)
    IN
    /\ c.pc = "offline"
    /\ IF repo_folders = {}
       THEN call' = [call EXCEPT ![p] = OnNoCachedSnapshot(c)]
       ELSE \E sf \in LastModified(repo_folders) :
            \E order \in Perms(ListDir(sf)) :
              call' = [call EXCEPT ![p] =
                         [c EXCEPT !.pc = "loop",
                                   !.listings = c.listings + 1,
                                   !.candidates = repo_folders,
                                   !.warned = WarnCondition(prefix, c.revision),
                                   !.storage_folder = sf,
                                   !.repo_id_sha = LastComponent(sf),
                                   !.model_files = order,
                                   !.idx = 1,
                                   !.present0 =
                                       { f \in ListDir(sf) : <<sf, f>> \in DOMAIN files }]]
    /\ UNCHANGED <<elsewhere, remote, cache, clock, prev, ncalls>>

\* the downloader is always told it may use the network
Mut_DownloaderLocalFilesOnly(c) == FALSE

\* line 165: the local_files_only argument handed to cached_download
DownloaderLocalFilesOnly(c) == c.local_files_only

\* lines 144-166: one file of the loop: makedirs, then cached_download is
\* entered; it returns at once when the destination exists, and without
\* network access it fails when the destination is missing
StartFetch(p) ==
    LET c == call[p]
        sf == c.storage_folder
        path == Path(c)
        newdirs == { <<sf, d>> : d \in Ancestors(path) } \ subdirs
        touched == sf \notin folders \/ \E k \in newdirs : IsTopLevel(k[2])
        offline == DownloaderLocalFilesOnly(c)
    IN
    /\ c.pc = "loop"
    /\ c.idx <= Len(c.model_files)
    /\ folders' = folders \cup {sf}
    /\ subdirs' = subdirs \cup newdirs
    /\ mtime' = IF touched THEN SetMtime(mtime, sf, clock) ELSE mtime
    /\ call' = [call EXCEPT ![p] =
                  [c EXCEPT !.pc = IF Exists(sf, path) THEN "cleanup"
                                   ELSE IF offline THEN "raised"
                                   ELSE "acquire",
                            !.error = IF ~Exists(sf, path) /\ offline
                                      THEN "ValueError: cached_download"
                                      ELSE c.error,
                            !.dlCalls = c.dlCalls + 1,
                            !.offlineDl = c.offlineDl /\ offline,
                            !.urls = c.urls \cup {Url(c)},
                            !.created = c.created \cup (IF sf \notin folders THEN {sf} ELSE {})]]
    /\ UNCHANGED <<elsewhere, remote, files, clock, prev, ncalls>>

\* cached_download: the destination is missing, the downloader takes the lock
\* at destination + ".lock"
AcquireLock(p) ==
    LET c == call[p]
        sf == c.storage_folder
        lock == <<sf, LockPath(Path(c))>>
    IN
    /\ c.pc = "acquire"
    /\ \A q \in Procs \ {p} :
          ~(call[q].pc = "locked" /\ call[q].storage_folder = sf
              /\ Path(call[q]) = Path(c))
    /\ files' = IF lock \in DOMAIN files THEN files
                ELSE WriteFiles(files, lock, LockContent)
    /\ mtime' = IF lock \notin DOMAIN files /\ IsTopLevel(lock[2])
                THEN SetMtime(mtime, sf, clock) ELSE mtime
    /\ call' = [call EXCEPT ![p] = [c EXCEPT !.pc = "locked"]]
    /\ UNCHANGED <<elsewhere, remote, folders, subdirs, clock, prev, ncalls>>

\* the lock is released; the artifact stays behind or not
ReleaseLock(fs, lock, leave) ==
    IF ~leave /\ lock \in DOMAIN fs /\ fs[lock] = LockContent
    THEN RemoveFiles(fs, lock) ELSE fs

\* cached_download under the lock: the file is transferred and written to the
\* destination, or the transfer fails and the error reaches the caller
WriteFile(p) ==
    LET c == call[p]
        sf == c.storage_folder
        dest == <<sf, Path(c)>>
        lock == <<sf, LockPath(Path(c))>>
    IN
    /\ c.pc = "locked"
    /\ \E leave \in BOOLEAN :
        \/ /\ files' = ReleaseLock(IF dest \in DOMAIN files THEN files
                                   ELSE WriteFiles(files, dest, ServedCommit(Url(c))),
                                   lock, leave)
           /\ call' = [call EXCEPT ![p] =
                         [c EXCEPT !.pc = "cleanup",
                                   !.written = IF dest \in DOMAIN files THEN c.written
                                               ELSE c.written \cup {dest}]]
        \/ /\ scenario.faults
           /\ files' = ReleaseLock(files, lock, leave)
           /\ call' = [call EXCEPT ![p] = [c EXCEPT !.pc = "raised",
                                                    !.error = "DownloadError"]]
    /\ mtime' = IF files' # files /\ IsTopLevel(dest[2])
                THEN SetMtime(mtime, sf, clock) ELSE mtime
    /\ UNCHANGED <<elsewhere, remote, folders, subdirs, clock, prev, ncalls>>

\* a cleanup that leaves the lock artifact where it is
Mut_RemoveIfExists(fs, lock) == fs

\* lines 168-169: if os.path.exists(path + ".lock"): os.remove(path + ".lock")
RemoveIfExists(fs, lock) ==
    IF lock \in DOMAIN fs THEN RemoveFiles(fs, lock) ELSE fs

\* lines 168-169: remove path + ".lock" when it exists; line 144: next file
RemoveLock(p) ==
    LET c == call[p]
        sf == c.storage_folder
        lock == <<sf, LockPath(Path(c))>>
    IN
    /\ c.pc = "cleanup"
    /\ files' = RemoveIfExists(files, lock)
    /\ mtime' = IF lock \in DOMAIN files /\ IsTopLevel(lock[2])
                THEN SetMtime(mtime, sf, clock) ELSE mtime
    /\ call' = [call EXCEPT ![p] =
                  [c EXCEPT !.pc = "loop",
                            !.idx = NextIdx(c),
                            !.removed = IF lock \in DOMAIN files
                                        THEN c.removed \cup {lock} ELSE c.removed]]
    /\ UNCHANGED <<elsewhere, remote, folders, subdirs, clock, prev, ncalls>>

\* line 171: return storage_folder
Return(p) ==
    LET c == call[p] IN
    /\ c.pc = "loop"
    /\ c.idx > Len(c.model_files)
    /\ call' = [call EXCEPT ![p] = [c EXCEPT !.pc = "returned"]]
    /\ UNCHANGED <<elsewhere, remote, cache, clock, prev, ncalls>>

(***************************************************************************)
(* Environment                                                             *)
(***************************************************************************)
\* a new commit is pushed: the branch moves from commit "s" to commit "t"
RemoteCommit ==
    /\ head = <<"s">>
    /\ head' = <<"t">>
    /\ UNCHANGED <<elsewhere, siblings, scenario, cache, clock, call, prev, ncalls>>

\* time passes between two calls
Tick ==
    /\ \A p \in Procs : Finished(call[p])
    /\ clock < MaxClock
    /\ clock' = clock + 1
    /\ UNCHANGED <<elsewhere, remote, cache, call, prev, ncalls>>

(***************************************************************************)
(* Safetensors metadata (utils/_safetensors.py)                            *)
(*                                                                         *)
(* A Dict of strings is a set of <<key, value>> pairs, an Optional[Dict] a *)
(* record that says whether it is None, a Dict keyed by names a function.  *)
(***************************************************************************)
TensorNames == {"w1", "w2"}
SingleFile == "model.safetensors"
IndexFile == "model.safetensors.index.json"
ShardFiles == {"shard0.safetensors", "shard1.safetensors"}
WeightFiles == ShardFiles \cup {SingleFile}

NoneDict == [present |-> FALSE, items |-> {}]
SomeDict(items) == [present |-> TRUE, items |-> items]
EmptyMap == [ x \in {} |-> "" ]

\* the dataclasses: their generated constructors store the arguments as given
TensorInfo(dtype, shape, data_offsets) ==
    [ dtype |-> dtype, shape |-> shape, data_offsets |-> data_offsets ]

SafetensorsFileMetadata(metadata, tensors) ==
    [ metadata |-> metadata, tensors |-> tensors ]

SafetensorsRepoMetadata(metadata, sharded, weight_map, files_metadata) ==
    [ metadata |-> metadata, sharded |-> sharded,
      weight_map |-> weight_map, files_metadata |-> files_metadata ]

\* a header as it is read from a file: the reserved "__metadata__" entry, when
\* there is one, and one entry per tensor with its dtype, shape and offsets
RawTensor == [ dtype |-> "F32", shape |-> <<2>>, data_offsets |-> <<0, 8>> ]
Headers ==
    { [ reserved |-> r, entries |-> [ t \in ts |-> RawTensor ] ] :
        r \in { NoneDict, SomeDict({<<"format", "pt">>}) }, ts \in SUBSET TensorNames }

\* partial maps from S to T
PartialMaps(S, T) == UNION { [ D -> T ] : D \in SUBSET S }

\* the repositories the reader is run on: which of the two marker files exist,
\* what the index says and what the header of each weights file holds
SafetensorsRepos ==
    [ has_index : BOOLEAN, has_single : BOOLEAN,
      index_metadata : { NoneDict, SomeDict({<<"total_size", "16">>}) },
      weight_map : PartialMaps(TensorNames, ShardFiles),
      headers : [ WeightFiles -> Headers ] ]

\* parse_safetensors_file_metadata: the reserved entry becomes the metadata
\* (empty when absent), every other entry a TensorInfo with a pair of offsets
ParseSafetensorsFileMetadata(header) ==
    SafetensorsFileMetadata(
        IF header.reserved.present THEN header.reserved.items ELSE {},
        [ t \in DOMAIN header.entries |->
            TensorInfo(header.entries[t].dtype, header.entries[t].shape,
                       << header.entries[t].data_offsets[1],
                          header.entries[t].data_offsets[2] >>) ])

\* a reader that trusts the index
Mut_CrossCheck(weight_map, files_metadata) == TRUE

\* every tensor the index names is in the parsed header of the file it is mapped to
CrossCheck(weight_map, files_metadata) ==
    \A t \in DOMAIN weight_map :
        /\ weight_map[t] \in DOMAIN files_metadata
        /\ t \in DOMAIN files_metadata[weight_map[t]].tensors

\* get_safetensors_metadata: the index first, then the single file
GetSafetensorsMetadataResult(repo) ==
    IF repo.has_index
    THEN LET filenames == { repo.weight_map[t] : t \in DOMAIN repo.weight_map }
             files_metadata ==
                 [ f \in filenames |-> ParseSafetensorsFileMetadata(repo.headers[f]) ]
         IN IF CrossCheck(repo.weight_map, files_metadata)
            THEN [ error |-> "",
                   value |-> SafetensorsRepoMetadata(repo.index_metadata, TRUE,
                                                     repo.weight_map, files_metadata) ]
            ELSE [ error |-> "MalformedRepoError" ]
    ELSE IF repo.has_single
    THEN [ error |-> "",
           value |-> SafetensorsRepoMetadata(
                        NoneDict, FALSE, EmptyMap,
                        [ f \in {SingleFile} |->
                            ParseSafetensorsFileMetadata(repo.headers[f]) ]) ]
    ELSE [ error |-> "NotASafetensorsRepoError" ]

\* one call of the reader on a repository
GetSafetensorsMetadata ==
    /\ meta.pc = "idle"
    /\ \E repo \in SafetensorsRepos :
         LET res == GetSafetensorsMetadataResult(repo) IN
         meta' = IF res.error = ""
                 THEN [ pc |-> "returned", by |-> "get_safetensors_metadata",
                        repo |-> repo, value |-> res.value ]
                 ELSE [ pc |-> "raised", by |-> "get_safetensors_metadata",
                        repo |-> repo, error |-> res.error ]
    /\ UNCHANGED <<snapshot, library, inference>>

\* a value built with the dataclass constructor
Construct ==
    /\ meta.pc = "idle"
    /\ \E metadata \in { NoneDict, SomeDict({}) }, sharded \in BOOLEAN,
          weight_map \in PartialMaps(TensorNames, WeightFiles),
          files_metadata \in PartialMaps(WeightFiles,
                { ParseSafetensorsFileMetadata(h) : h \in { x \in Headers : ~x.reserved.present } }) :
         meta' = [ pc |-> "returned", by |-> "SafetensorsRepoMetadata",
                   value |-> SafetensorsRepoMetadata(metadata, sharded,
                                                     weight_map, files_metadata) ]
    /\ UNCHANGED <<snapshot, library, inference>>

(***************************************************************************)
(* Inference endpoints (_inference_endpoints.py)                           *)
(*                                                                         *)
(* An Optional value is a set: empty for None, a singleton otherwise.  A   *)
(* dict is a function of its keys, the values of the status dict being     *)
(* kept as sequences: the digits of a timestamp, a one-element sequence    *)
(* for the state and for the url.  Time is counted in whole seconds.       *)
(***************************************************************************)
PyNone == {}
Some(x) == {x}
ValueOf(o) == CHOOSE x \in o : TRUE

\* dict.get(key): None when the key is missing
Get(d, key) == IF key \in DOMAIN d THEN Some(d[key]) ELSE PyNone

\* parse_datetime on the digits of a timestamp
DigitValue(ch) ==
    CASE ch = "0" -> 0 [] ch = "1" -> 1 [] ch = "2" -> 2 [] ch = "3" -> 3 [] ch = "4" -> 4
      [] ch = "5" -> 5 [] ch = "6" -> 6 [] ch = "7" -> 7 [] ch = "8" -> 8 [] ch = "9" -> 9

RECURSIVE ParseDatetime(_)
ParseDatetime(digits) ==
    IF digits = <<>> THEN 0
    ELSE 10 * ParseDatetime(SubSeq(digits, 1, Len(digits) - 1)) + DigitValue(digits[Len(digits)])

\* the raw description of the endpoint while it is not deployed: no "url" key
RawStatus(state, updatedAt) ==
    [ k \in {"state", "createdAt", "updatedAt"} |->
        CASE k = "state" -> <<state>> [] k = "createdAt" -> <<"7">> [] k = "updatedAt" -> updatedAt ]

\* the raw description of a deployed endpoint: the status carries the url
RawStatusWithUrl(state, updatedAt, url) ==
    [ k \in {"state", "createdAt", "updatedAt", "url"} |->
        CASE k = "state" -> <<state>> [] k = "createdAt" -> <<"7">>
          [] k = "updatedAt" -> updatedAt [] k = "url" -> <<url>> ]

Raw(status) ==
    [ name |-> "my-endpoint",
      model |-> [ repository |-> "gpt2", framework |-> "pytorch",
                  revision |-> "11c5a3d", task |-> "text-generation" ],
      status |-> status,
      type |-> "protected" ]

PendingRaw == Raw(RawStatus("pending", <<"7">>))
FailedRaw == Raw(RawStatus("failed", <<"1", "0">>))
RunningRaw == Raw(RawStatusWithUrl("running", <<"1", "2">>, "https://e"))

\* a refresh that forgets the url
Mut_PopulateFromRaw(e) ==
    [ e EXCEPT !.name = e.raw.name,
               !.repository = e.raw.model.repository,
               !.status = e.raw.status["state"][1],
               !.framework = e.raw.model.framework,
               !.revision = e.raw.model.revision,
               !.task = e.raw.model.task,
               !.created_at = ParseDatetime(e.raw.status["createdAt"]),
               !.updated_at = ParseDatetime(e.raw.status["updatedAt"]),
               !.type = e.raw.type ]

\* lines 308-325: every field of the object is read from raw
PopulateFromRaw(e) ==
    [ e EXCEPT !.name = e.raw.name,
               !.repository = e.raw.model.repository,
               !.status = e.raw.status["state"][1],
               !.url = IF Get(e.raw.status, "url") = PyNone THEN PyNone
                       ELSE Some(ValueOf(Get(e.raw.status, "url"))[1]),
               !.framework = e.raw.model.framework,
               !.revision = e.raw.model.revision,
               !.task = e.raw.model.task,
               !.created_at = ParseDatetime(e.raw.status["createdAt"]),
               !.updated_at = ParseDatetime(e.raw.status["updatedAt"]),
               !.type = e.raw.type ]

\* lines 118-136: from_raw and __post_init__
FromRaw(raw, namespace) ==
    PopulateFromRaw([ raw |-> raw, namespace |-> namespace,
                      token |-> "hf_token", api |-> "HfApi",
                      name |-> "", repository |-> "", status |-> "", url |-> PyNone,
                      framework |-> "", revision |-> "", task |-> "",
                      created_at |-> 0, updated_at |-> 0, type |-> "" ])

\* lines 198-202: the object takes the raw description the server returns
FetchLatestStatusOf(e, obj_raw) == PopulateFromRaw([ e EXCEPT !.raw = obj_raw ])

IdleWaiter ==
    [ pc |-> "idle", timeout |-> PyNone, refresh_every |-> 1, url0 |-> PyNone,
      elapsed |-> 0, fetches |-> 0, error |-> "" ]

\* the arguments wait is called with
Timeouts == { PyNone } \cup { Some(t) : t \in (0 - 1)..MaxTimeout }
RefreshEverys == 0..MaxRefresh

\* the measured time stops growing once it is past every timeout
MaxElapsed == MaxTimeout + 1
Elapse(elapsed, d) == IF elapsed + d > MaxElapsed THEN MaxElapsed ELSE elapsed + d
CountFetch(n) == IF n < MaxFetches THEN n + 1 ELSE n

\* lines 180-186: what wait does before its loop
WaitEntry(url, timeout, refresh_every) ==
    IF url # PyNone THEN [ pc |-> "returned", error |-> "" ]
    ELSE IF timeout # PyNone /\ ValueOf(timeout) < 0
    THEN [ pc |-> "raised", error |-> "ValueError" ]
    ELSE IF refresh_every <= 0
    THEN [ pc |-> "raised", error |-> "ValueError" ]
    ELSE [ pc |-> "fetch", error |-> "" ]

\* a loop that leaves as soon as a status has been fetched
Mut_AfterFetchReturns(url, timeout, elapsed) == [ pc |-> "returned", error |-> "" ]

\* a timeout that is reached rather than exceeded
Mut_AfterFetchNotStrict(url, timeout, elapsed) ==
    IF url # PyNone THEN [ pc |-> "returned", error |-> "" ]
    ELSE IF timeout # PyNone /\ elapsed >= ValueOf(timeout)
    THEN [ pc |-> "raised", error |-> "TimeoutError" ]
    ELSE [ pc |-> "sleep", error |-> "" ]

\* lines 191-195: what the loop does with the status it has fetched
AfterFetch(url, timeout, elapsed) ==
    IF url # PyNone THEN [ pc |-> "returned", error |-> "" ]
    ELSE IF timeout # PyNone /\ elapsed > ValueOf(timeout)
    THEN [ pc |-> "raised", error |-> "TimeoutError" ]
    ELSE [ pc |-> "sleep", error |-> "" ]

\* lines 166-188: wait is called; start = time.time() when the loop is entered
WaitStart ==
    /\ waiter.pc \in {"idle", "returned", "raised"}
    /\ \E timeout \in Timeouts, refresh_every \in RefreshEverys :
         LET entry == WaitEntry(endpoint.url, timeout, refresh_every) IN
         waiter' = [ IdleWaiter EXCEPT !.pc = entry.pc, !.error = entry.error,
                                       !.timeout = timeout,
                                       !.refresh_every = refresh_every,
                                       !.url0 = endpoint.url ]
    /\ UNCHANGED <<snapshot, library, meta, made, server, endpoint>>

\* lines 190-195: one fetch of the loop, which takes no time or a second, and
\* the two checks that follow it
WaitFetch ==
    /\ waiter.pc = "fetch"
    /\ \E d \in {0, 1} :
         LET e == FetchLatestStatusOf(endpoint, server)
             elapsed == Elapse(waiter.elapsed, d)
             after == AfterFetch(e.url, waiter.timeout, elapsed)
         IN /\ endpoint' = e
            /\ waiter' = [ waiter EXCEPT !.pc = after.pc, !.error = after.error,
                                         !.elapsed = elapsed,
                                         !.fetches = CountFetch(waiter.fetches) ]
    /\ UNCHANGED <<snapshot, library, meta, made, server>>

\* line 196: time.sleep(refresh_every) lasts refresh_every seconds or a second more
WaitSleep ==
    /\ waiter.pc = "sleep"
    /\ \E d \in {0, 1} :
         waiter' = [ waiter EXCEPT !.pc = "fetch",
                                   !.elapsed = Elapse(waiter.elapsed, waiter.refresh_every + d) ]
    /\ UNCHANGED <<snapshot, library, meta, made, server, endpoint>>

\* lines 198-202: fetch_latest_status called by the user, outside wait
FetchLatestStatus ==
    /\ waiter.pc \in {"idle", "returned", "raised"}
    /\ endpoint' = FetchLatestStatusOf(endpoint, server)
    /\ endpoint' # endpoint
    /\ UNCHANGED <<snapshot, library, meta, made, server, waiter>>

\* the server finishes the deployment: the endpoint runs and has a url
ServerDeploys ==
    /\ server.status["state"] \in { <<"pending">>, <<"updating">> }
    /\ server' = [ server EXCEPT !.status = RunningRaw.status ]
    /\ UNCHANGED <<snapshot, library, meta, made, endpoint, waiter>>

\* the deployment fails: the endpoint will never have a url
ServerFails ==
    /\ server = PendingRaw
    /\ server' = FailedRaw
    /\ UNCHANGED <<snapshot, library, meta, made, endpoint, waiter>>

\* no client asked for yet
IdleMade == [ pc |-> "idle" ]

\* what the server holds after it has been asked to pause, resume or scale
\* to zero the endpoint: a new state and no url
ServerAfter(raw, state, updatedAt) == [ raw EXCEPT !.status = RawStatus(state, updatedAt) ]

\* what the server holds after an update: the model fields that were given
\* are replaced, and the endpoint is being updated
ServerAfterUpdate(raw, repository, framework, revision, task) ==
    [ raw EXCEPT !.model = [ repository |-> IF repository = PyNone THEN @.repository
                                            ELSE ValueOf(repository),
                             framework |-> IF framework = PyNone THEN @.framework
                                           ELSE ValueOf(framework),
                             revision |-> IF revision = PyNone THEN @.revision
                                          ELSE ValueOf(revision),
                             task |-> IF task = PyNone THEN @.task ELSE ValueOf(task) ],
                 !.status = RawStatus("updating", <<"1", "5">>) ]

\* lines 204-266: update; the object takes the raw description that comes back
Update ==
    /\ \E repository \in { PyNone, Some("bert") }, framework \in { PyNone },
          revision \in { PyNone, Some("22") }, task \in { PyNone, Some("fill-mask") } :
         /\ server' = ServerAfterUpdate(server, repository, framework, revision, task)
         /\ endpoint' = FetchLatestStatusOf(endpoint, server')
    /\ UNCHANGED <<snapshot, library, meta, waiter, made>>

\* lines 268-276: pause
Pause ==
    /\ server' = ServerAfter(server, "paused", <<"2", "0">>)
    /\ endpoint' = FetchLatestStatusOf(endpoint, server')
    /\ UNCHANGED <<snapshot, library, meta, waiter, made>>

\* lines 278-286: resume
Resume ==
    /\ server.status["state"] = <<"paused">>
    /\ server' = ServerAfter(server, "pending", <<"2", "1">>)
    /\ endpoint' = FetchLatestStatusOf(endpoint, server')
    /\ UNCHANGED <<snapshot, library, meta, waiter, made>>

\* lines 288-296: scale_to_zero
ScaleToZero ==
    /\ server' = ServerAfter(server, "scaledToZero", <<"2", "2">>)
    /\ endpoint' = FetchLatestStatusOf(endpoint, server')
    /\ UNCHANGED <<snapshot, library, meta, waiter, made>>

\* a property that hands out a client whether or not there is a url
Mut_ClientOf(e, kind) ==
    [ pc |-> "returned", kind |-> kind, model |-> e.url, token |-> e.token ]

\* lines 144-150 and 158-164: no client without a url, else one for url and token
ClientOf(e, kind) ==
    IF e.url = PyNone
    THEN [ pc |-> "raised", kind |-> kind, error |-> "InferenceEndpointException" ]
    ELSE [ pc |-> "returned", kind |-> kind, model |-> e.url, token |-> e.token ]

\* lines 138-150: the client property
Client ==
    /\ made' = ClientOf(endpoint, "InferenceClient")
    /\ made' # made
    /\ UNCHANGED <<snapshot, library, meta, server, endpoint, waiter>>

\* lines 152-164: the async_client property
AsyncClient ==
    /\ made' = ClientOf(endpoint, "AsyncInferenceClient")
    /\ made' # made
    /\ UNCHANGED <<snapshot, library, meta, server, endpoint, waiter>>

(***************************************************************************)
(* Model cards (repocard.py)                                               *)
(*                                                                         *)
(* A metric is a record of name, type and value, a result a record of      *)
(* dataset, task and its list of metrics; lists are sequences.  The two    *)
(* update functions change their list in place and return it: an operator  *)
(* yields the list as it is when the function returns or raises, and the   *)
(* error raised, "" for none.                                              *)
(***************************************************************************)
UNIQUE_RESULT_FEATURES == {"dataset", "task"}
UNIQUE_METRIC_FEATURES == {"name", "type"}

Metrics == [ name : {"Accuracy", "Recall"}, type : {"accuracy", "recall"}, value : {1, 2} ]

\* every list of at most n elements of S
ListsOf(S, n) == UNION { [1..k -> S] : k \in 0..n }

MetricLists == ListsOf(Metrics, MaxMetrics)

\* all(new[feat] == existing[feat] for feat in features)
SameFeatures(new, existing, features) == \A feat \in features : new[feat] = existing[feat]

Mut_MetricMatches(new_metric, existing_metric) ==
    new_metric.name = existing_metric.name
\* the test that pairs a new metric with an existing one
MetricMatches(new_metric, existing_metric) ==
    SameFeatures(new_metric, existing_metric, UNIQUE_METRIC_FEATURES)

\* the inner loop of _update_metadata_results_metric from index i on: every
\* existing metric is visited, there is no break
RECURSIVE ScanExistingMetrics(_, _, _, _, _)
ScanExistingMetrics(new_metric, existing_metrics, i, overwrite, metric_exists) ==
    IF i > Len(existing_metrics)
    THEN [ list |-> existing_metrics, found |-> metric_exists, error |-> "" ]
    ELSE IF MetricMatches(new_metric, existing_metrics[i])
    THEN IF overwrite
         THEN ScanExistingMetrics(new_metric,
                  [existing_metrics EXCEPT ![i].value = new_metric.value],
                  i + 1, overwrite, TRUE)
         ELSE IF existing_metrics[i].value # new_metric.value
         THEN [ list |-> existing_metrics, found |-> metric_exists, error |-> "ValueError" ]
         ELSE ScanExistingMetrics(new_metric, existing_metrics, i + 1, overwrite, TRUE)
    ELSE ScanExistingMetrics(new_metric, existing_metrics, i + 1, overwrite, metric_exists)

\* the outer loop from the n-th new metric on
RECURSIVE UpdateMetricsFrom(_, _, _, _)
UpdateMetricsFrom(new_metrics, existing_metrics, n, overwrite) ==
    IF n > Len(new_metrics)
    THEN [ list |-> existing_metrics, error |-> "" ]
    ELSE LET scan == ScanExistingMetrics(new_metrics[n], existing_metrics, 1, overwrite, FALSE)
         IN  IF scan.error # ""
             THEN [ list |-> scan.list, error |-> scan.error ]
             ELSE UpdateMetricsFrom(new_metrics,
                      IF scan.found THEN scan.list ELSE Append(scan.list, new_metrics[n]),
                      n + 1, overwrite)

UpdateMetadataResultsMetric(new_metrics, existing_metrics, overwrite) ==
    UpdateMetricsFrom(new_metrics, existing_metrics, 1, overwrite)

\* a call of _update_metadata_results_metric on a list the caller holds
UpdateMetrics ==
    /\ card.pc = "idle"
    /\ \E new_metrics \in MetricLists, existing_metrics \in MetricLists, overwrite \in BOOLEAN :
         LET merged == UpdateMetadataResultsMetric(new_metrics, existing_metrics, overwrite)
         IN  card' = [ pc |-> IF merged.error = "" THEN "merged" ELSE "raised",
                       op |-> "_update_metadata_results_metric",
                       new_metrics |-> new_metrics,
                       original |-> existing_metrics,
                       before |-> existing_metrics,
                       existing_metrics |-> merged.list,
                       overwrite |-> overwrite,
                       error |-> merged.error,
                       calls |-> 1 ]
    /\ UNCHANGED <<snapshot, meta, inference, fastai>>

\* the caller applies the same new metrics to the list it got back
UpdateMetricsAgain ==
    /\ card.pc = "merged"
    /\ card.op = "_update_metadata_results_metric"
    /\ card.calls = 1
    /\ LET merged == UpdateMetadataResultsMetric(card.new_metrics, card.existing_metrics,
                                                 card.overwrite)
       IN  card' = [ card EXCEPT !.pc = IF merged.error = "" THEN "merged" ELSE "raised",
                                 !.before = card.existing_metrics,
                                 !.existing_metrics = merged.list,
                                 !.error = merged.error,
                                 !.calls = 2 ]
    /\ UNCHANGED <<snapshot, meta, inference, fastai>>

\* the results of a model-index: one metric each, on one of two datasets
Results ==
    [ dataset : {"X", "Y"}, task : {"asr"},
      metrics : [1..1 -> [ name : {"Accuracy"}, type : {"accuracy", "recall"}, value : {1, 2} ]] ]

\* the inner loop of _update_metadata_model_index from index i on
RECURSIVE ScanExistingResults(_, _, _, _, _)
ScanExistingResults(new_result, existing_results, i, overwrite, result_found) ==
    IF i > Len(existing_results)
    THEN [ list |-> existing_results, found |-> result_found, error |-> "" ]
    ELSE IF SameFeatures(new_result, existing_results[i], UNIQUE_RESULT_FEATURES)
    THEN LET merged == UpdateMetadataResultsMetric(new_result.metrics,
                                                   existing_results[i].metrics, overwrite)
             updated == [existing_results EXCEPT ![i].metrics = merged.list]
         IN  IF merged.error # ""
             THEN [ list |-> updated, found |-> TRUE, error |-> merged.error ]
             ELSE ScanExistingResults(new_result, updated, i + 1, overwrite, TRUE)
    ELSE ScanExistingResults(new_result, existing_results, i + 1, overwrite, result_found)

\* the outer loop from the n-th new result on
RECURSIVE UpdateResultsFrom(_, _, _, _)
UpdateResultsFrom(existing_results, new_results, n, overwrite) ==
    IF n > Len(new_results)
    THEN [ list |-> existing_results, error |-> "" ]
    ELSE LET scan == ScanExistingResults(new_results[n], existing_results, 1, overwrite, FALSE)
         IN  IF scan.error # ""
             THEN [ list |-> scan.list, error |-> scan.error ]
             ELSE UpdateResultsFrom(
                      IF scan.found THEN scan.list ELSE Append(scan.list, new_results[n]),
                      new_results, n + 1, overwrite)

UpdateMetadataModelIndex(existing_results, new_results, overwrite) ==
    UpdateResultsFrom(existing_results, new_results, 1, overwrite)

\* A metadata dict is a function of its keys.  A README is a record of its
\* YAML block (none, a mapping or another YAML value), the lines of the
\* block, each a <<key, value>> pair, and the text around the block.
KeyOrder == <<"license", "language", "model-index">>

\* the dict of the given optional entries
DictOf(license, language, model_index) ==
    [ key \in { k \in {"license"} : license # PyNone }
              \cup { k \in {"language"} : language # PyNone }
              \cup { k \in {"model-index"} : model_index # PyNone } |->
        CASE key = "license" -> ValueOf(license)
          [] key = "language" -> ValueOf(language)
          [] key = "model-index" -> ValueOf(model_index) ]

\* a model-index: a list of one entry that holds the results
ModelIndex(results) == << [ name |-> "model", results |-> results ] >>

\* yaml.dump(data, sort_keys=False): one line per key
YamlDump(data) ==
    LET keys == SelectSeq(KeyOrder, LAMBDA key : key \in DOMAIN data)
    IN  [ i \in 1..Len(keys) |-> <<keys[i], data[keys[i]]>> ]

\* yaml.safe_load of a mapping: the last line of a key gives its value
YamlSafeLoad(lines) ==
    [ key \in { lines[i][1] : i \in 1..Len(lines) } |->
        lines[CHOOSE i \in 1..Len(lines) :
                  /\ lines[i][1] = key
                  /\ \A j \in 1..Len(lines) : lines[j][1] = key => j <= i][2] ]

\* the dicts a card holds and the dicts a caller passes
CardDicts ==
    { DictOf(license, language, model_index) :
        license \in {PyNone, Some("mit"), Some("apache-2.0")},
        language \in {PyNone, Some("en")},
        model_index \in {PyNone} \cup { Some(ModelIndex(r)) : r \in ListsOf(Results, MaxResults) } }
MetadataArgs ==
    { DictOf(license, language, model_index) :
        license \in {PyNone, Some("mit"), Some("apache-2.0")},
        language \in {PyNone, Some("fr")},
        model_index \in {PyNone} \cup { Some(ModelIndex(r)) : r \in ListsOf(Results, 1) } }

\* the README.md files of the repositories
Readmes ==
    { [ block |-> "dict", yaml |-> YamlDump(data), body |-> "text" ] : data \in CardDicts }
    \cup { [ block |-> "none", yaml |-> <<>>, body |-> "text" ],
           [ block |-> "scalar", yaml |-> <<>>, body |-> "text" ] }

MetadataLoad(content) ==
    CASE content.block = "dict" -> [ data |-> Some(YamlSafeLoad(content.yaml)), error |-> "" ]
      [] content.block = "scalar" -> [ data |-> PyNone, error |-> "ValueError" ]
      [] content.block = "none" -> [ data |-> PyNone, error |-> "" ]

\* metadata_save on an existing file: the block is replaced, or put in front
MetadataSave(content, data) ==
    IF data = PyNone
    THEN [ content EXCEPT !.block = "scalar", !.yaml = <<>> ]
    ELSE [ content EXCEPT !.block = "dict", !.yaml = YamlDump(ValueOf(data)) ]

\* existing_metadata[key] = value
SetItem(data, key, value) ==
    [ k \in DOMAIN data \cup {key} |-> IF k = key THEN value ELSE data[k] ]

\* the loop over the keys of metadata, from the n-th key of the dict's order on
RECURSIVE UpdateKeysFrom(_, _, _, _, _)
UpdateKeysFrom(existing_metadata, metadata, order, n, overwrite) ==
    IF n > Len(order)
    THEN [ data |-> existing_metadata, error |-> "" ]
    ELSE IF existing_metadata = PyNone
    THEN [ data |-> existing_metadata, error |-> "TypeError" ]
    ELSE LET key == order[n]
             existing == ValueOf(existing_metadata)
         IN  IF key = "model-index"
             THEN IF "model-index" \notin DOMAIN existing
                  THEN UpdateKeysFrom(Some(SetItem(existing, key, metadata[key])),
                                      metadata, order, n + 1, overwrite)
                  ELSE LET merged == UpdateMetadataModelIndex(existing[key][1].results,
                                         metadata[key][1].results, overwrite)
                           updated == [existing EXCEPT ![key][1].results = merged.list]
                       IN  IF merged.error # ""
                           THEN [ data |-> Some(updated), error |-> merged.error ]
                           ELSE UpdateKeysFrom(Some(updated), metadata, order, n + 1, overwrite)
             ELSE IF key \in DOMAIN existing /\ ~overwrite
                  THEN IF existing[key] # metadata[key]
                       THEN [ data |-> existing_metadata, error |-> "ValueError" ]
                       ELSE UpdateKeysFrom(existing_metadata, metadata, order, n + 1, overwrite)
                  ELSE UpdateKeysFrom(Some(SetItem(existing, key, metadata[key])),
                                      metadata, order, n + 1, overwrite)

\* hf_hub_download: the path of the cached copy of the repository's README.md
HfHubDownload(readme) == [ path |-> "cache", fs |-> [ p \in {"cache"} |-> readme ] ]

\* shutil.copy(src, dst): the file system afterwards
Copy(fs, src, dst) == [ p \in DOMAIN fs \cup {dst} |-> IF p = dst THEN fs[src] ELSE fs[p] ]

Mut_WorkingPath(upstream_filepath, tmpdirname) == upstream_filepath
\* the path shutil.copy returns: the file all the edits are made on
WorkingPath(upstream_filepath, tmpdirname) == tmpdirname

\* leaving the with block removes the temporary directory
Cleanup(fs, tmpdirname) == [ p \in DOMAIN fs \ {tmpdirname} |-> fs[p] ]

\* metadata_update up to the call of upload_file: download, copy, load,
\* update key by key, save
MetadataUpdate ==
    /\ card.pc = "idle"
    /\ \E readme \in Readmes, metadata \in MetadataArgs, overwrite \in BOOLEAN :
         \E order \in Perms(DOMAIN metadata) :
           LET downloaded == HfHubDownload(readme)
               copied == Copy(downloaded.fs, downloaded.path, "tmp")
               filepath == WorkingPath(downloaded.path, "tmp")
               loaded == MetadataLoad(copied[filepath])
               updated == IF loaded.error # "" THEN loaded
                          ELSE UpdateKeysFrom(loaded.data, metadata, order, 1, overwrite)
               saved == [copied EXCEPT ![filepath] = MetadataSave(copied[filepath], updated.data)]
           IN  card' = [ pc |-> IF updated.error = "" THEN "saved" ELSE "raised",
                         op |-> "metadata_update",
                         readme |-> readme,
                         downloaded |-> readme,
                         files |-> IF updated.error = "" THEN saved ELSE Cleanup(copied, "tmp"),
                         filepath |-> filepath,
                         metadata |-> metadata,
                         overwrite |-> overwrite,
                         error |-> updated.error,
                         uploads |-> 0 ]
    /\ UNCHANGED <<snapshot, meta, inference, fastai>>

\* HfApi().upload_file succeeds: the repository gets the edited file
UploadFile ==
    /\ card.pc = "saved"
    /\ card' = [ card EXCEPT !.pc = "returned",
                             !.readme = card.files[card.filepath],
                             !.uploads = card.uploads + 1,
                             !.files = Cleanup(card.files, "tmp") ]
    /\ UNCHANGED <<snapshot, meta, inference, fastai>>

\* HfApi().upload_file raises
UploadFileFails ==
    /\ card.pc = "saved"
    /\ card' = [ card EXCEPT !.pc = "raised",
                             !.error = "HTTPError",
                             !.files = Cleanup(card.files, "tmp") ]
    /\ UNCHANGED <<snapshot, meta, inference, fastai>>

(***************************************************************************)
(* fastai version checks (fastai_utils.py)                                 *)
(*                                                                         *)
(* get_fastai_version and get_fastcore_version report the version of the   *)
(* installed library as a string, "N/A" when it is not installed.          *)
(***************************************************************************)
NA == <<"N", "/", "A">>

\* the fastai and fastcore versions an environment can have
FastaiVersions == { NA, <<"2", ".", "3">>, <<"2", ".", "4">>, <<"2", ".", "5", ".", "6">>,
                    <<"2", ".", "1", "0">> }
FastcoreVersions == { NA, <<"1", ".", "3">>, <<"1", ".", "3", ".", "2", "6">>,
                      <<"1", ".", "3", ".", "2", "7">>, <<"1", ".", "4">> }
\* the minimum versions a caller asks for: the defaults and one other each
FastaiMinVersions == { <<"2", ".", "4">>, <<"2", ".", "5">> }
FastcoreMinVersions == { <<"1", ".", "3", ".", "2", "7">>, <<"1", ".", "3">> }

\* a or b: a when it is truthy, a non-empty string is
PyOr(a, b) == IF a # <<>> THEN a ELSE b

IsDigit(ch) == ch \in {"0", "1", "2", "3", "4", "5", "6", "7", "8", "9"}

RECURSIVE IntOf(_)
IntOf(digits) ==
    IF digits = <<>> THEN 0
    ELSE 10 * IntOf(SubSeq(digits, 1, Len(digits) - 1)) + DigitValue(digits[Len(digits)])

\* the components of a release are stripped of their trailing zeros when compared
RECURSIVE StripZeros(_)
StripZeros(release) ==
    IF release # <<>> /\ release[Len(release)] = 0
    THEN StripZeros(SubSeq(release, 1, Len(release) - 1))
    ELSE release

\* version.Version(s) for a release of dot-separated numbers: the key it is
\* compared by, or InvalidVersion
Version(s) ==
    LET parts == Split(s, ".")
    IN  IF \A i \in 1..Len(parts) :
               parts[i] # <<>> /\ \A j \in 1..Len(parts[i]) : IsDigit(parts[i][j])
        THEN [ error |-> "", release |-> StripZeros([ i \in 1..Len(parts) |-> IntOf(parts[i]) ]) ]
        ELSE [ error |-> "InvalidVersion", release |-> <<>> ]

\* a < b on release tuples
RECURSIVE TupleLess(_, _)
TupleLess(a, b) ==
    IF b = <<>> THEN FALSE
    ELSE IF a = <<>> THEN TRUE
    ELSE IF a[1] # b[1] THEN a[1] < b[1]
    ELSE TupleLess(Tail(a), Tail(b))

\* the test of the first statement
Unavailable(fastcore_version, fastai_version) ==
    PyOr(fastcore_version, fastai_version) = NA

\* the error _check_fastai_fastcore_versions raises, "" when it returns
CheckFastaiFastcoreVersions(fastai_version, fastcore_version, fastai_min_version, fastcore_min_version) ==
    IF Unavailable(fastcore_version, fastai_version) THEN "ImportError"
    ELSE LET current_fastai_version == Version(fastai_version)
             current_fastcore_version == Version(fastcore_version)
         IN  IF current_fastai_version.error # "" THEN current_fastai_version.error
             ELSE IF current_fastcore_version.error # "" THEN current_fastcore_version.error
             ELSE IF TupleLess(current_fastai_version.release,
                               Version(fastai_min_version).release)
             THEN "ImportError"
             ELSE IF TupleLess(current_fastcore_version.release,
                               Version(fastcore_min_version).release)
             THEN "ImportError"
             ELSE ""

\* a call of _check_fastai_fastcore_versions in the environment
CheckVersions ==
    /\ fastai.pc = "idle"
    /\ \E fastai_min_version \in FastaiMinVersions, fastcore_min_version \in FastcoreMinVersions :
         LET error == CheckFastaiFastcoreVersions(fastai.fastai_version, fastai.fastcore_version,
                                                  fastai_min_version, fastcore_min_version)
         IN  fastai' = [ pc |-> IF error = "" THEN "returned" ELSE "raised",
                         fastai_version |-> fastai.fastai_version,
                         fastcore_version |-> fastai.fastcore_version,
                         fastai_min_version |-> fastai_min_version,
                         fastcore_min_version |-> fastcore_min_version,
                         error |-> error ]
    /\ UNCHANGED <<snapshot, meta, inference, card>>

(***************************************************************************)
(* Specification: one caller, calls one after the other                    *)
(***************************************************************************)
\* the state after construction: an empty cache, no call made, the remote at
\* its first commit, for the inputs and faults sc of one specification
InitSnapshot(sc) ==
    /\ head = <<"s">>
    /\ siblings \in [Shas -> sc.listings]
    /\ folders = {}
    /\ subdirs = {}
    /\ files = << >>
    /\ mtime = << >>
    /\ clock = 0
    /\ call = [p \in Procs |-> IdleCall]
    /\ prev = [p \in Procs |-> Summary(IdleCall)]
    /\ ncalls = [online |-> 0, offline |-> 0]
    /\ scenario = sc

\* the same, with nothing built by the other components
InitScenario(sc) ==
    /\ InitSnapshot(sc)
    /\ meta = IdleMeta
    /\ server = PendingRaw
    /\ endpoint = FromRaw(PendingRaw, "ns")
    /\ waiter = IdleWaiter
    /\ made = IdleMade
    /\ card = IdleCard
    /\ fastai = NoFastai

\* one caller, every revision argument, valid and invalid repo ids, a
\* downloader whose transfers succeed
Init ==
    InitScenario([repo_ids |-> RepoIds \ {<<"o", "/", "m", ".", "1">>},
                  revisions |-> RevisionArgs,
                  listings |-> Listings,
                  callers |-> {1},
                  faults |-> FALSE])

\* one caller of one repository, with transfers that may fail
InitFaults ==
    InitScenario([repo_ids |-> {<<"o", "/", "m">>},
                  revisions |-> {Branch, <<"t">>},
                  listings |-> Listings,
                  callers |-> {1},
                  faults |-> TRUE])

\* one caller of two repositories whose names differ by a dotted suffix
InitDotted ==
    InitScenario([repo_ids |-> {<<"o", "/", "m">>, <<"o", "/", "m", ".", "1">>},
                  revisions |-> {Branch, Tag},
                  listings |-> { <<>>, <<FileDB, FileA>> },
                  callers |-> {1},
                  faults |-> FALSE])

\* two callers that share the cache and ask for the same repository and branch
InitConcurrent ==
    InitScenario([repo_ids |-> {<<"o", "/", "m">>},
                  revisions |-> {Branch},
                  listings |-> { <<FileA, FileALock>>, <<FileDB, FileA>> },
                  callers |-> Procs,
                  faults |-> FALSE])

Step(p) ==
    \/ \E repo_id \in scenario.repo_ids, revision \in scenario.revisions, lfo \in BOOLEAN :
          CallStart(p, repo_id, revision, lfo)
    \/ ModelInfo(p)
    \/ OfflineResolve(p)
    \/ StartFetch(p)
    \/ AcquireLock(p)
    \/ WriteFile(p)
    \/ RemoveLock(p)
    \/ Return(p)

Next ==
    \/ \E p \in Procs : Step(p)
    \/ RemoteCommit
    \/ Tick

Spec == Init /\ [][Next]_vars

SpecFaults == InitFaults /\ [][Next]_vars

SpecConcurrent == InitConcurrent /\ [][Next]_vars

SpecDotted == InitDotted /\ [][Next]_vars

(***************************************************************************)
(* Specifications of the other components                                  *)
(***************************************************************************)
\* no snapshot_download caller, an empty remote listing
NoSnapshot ==
    [repo_ids |-> {}, revisions |-> {}, listings |-> { <<>> },
     callers |-> {}, faults |-> FALSE]

InitSafetensors == InitScenario(NoSnapshot)

NextSafetensors ==
    \/ GetSafetensorsMetadata
    \/ Construct

SpecSafetensors == InitSafetensors /\ [][NextSafetensors]_vars

\* an InferenceEndpoint object built from what the server holds, pending or running
InitEndpoint ==
    /\ InitSnapshot(NoSnapshot)
    /\ meta = IdleMeta
    /\ server \in {PendingRaw, RunningRaw}
    /\ endpoint = FromRaw(server, "ns")
    /\ waiter = IdleWaiter
    /\ made = IdleMade
    /\ card = IdleCard
    /\ fastai = NoFastai

NextEndpoint ==
    \/ WaitStart
    \/ WaitFetch
    \/ WaitSleep
    \/ FetchLatestStatus
    \/ ServerDeploys
    \/ ServerFails

\* the operations on an endpoint object, in any order, next to the server's own steps
NextEndpointOps ==
    \/ FetchLatestStatus
    \/ Update
    \/ Pause
    \/ Resume
    \/ ScaleToZero
    \/ Client
    \/ AsyncClient
    \/ ServerDeploys
    \/ ServerFails

SpecEndpointOps == InitEndpoint /\ [][NextEndpointOps]_vars

\* wait runs as one thread: its next statement is eventually executed
SpecEndpoint ==
    InitEndpoint /\ [][NextEndpoint]_vars /\ WF_vars(WaitFetch) /\ WF_vars(WaitSleep)

\* a caller of the model card functions, nothing else running
InitRepocard == InitScenario(NoSnapshot)

NextMetrics ==
    \/ UpdateMetrics
    \/ UpdateMetricsAgain

SpecMetrics == InitRepocard /\ [][NextMetrics]_vars

NextRepocard ==
    \/ MetadataUpdate
    \/ UploadFile
    \/ UploadFileFails

SpecRepocard == InitRepocard /\ [][NextRepocard]_vars

\* an environment with any of the versions of the two libraries, or without them
InitFastai ==
    /\ InitSnapshot(NoSnapshot)
    /\ meta = IdleMeta
    /\ server = PendingRaw
    /\ endpoint = FromRaw(PendingRaw, "ns")
    /\ waiter = IdleWaiter
    /\ made = IdleMade
    /\ card = IdleCard
    /\ fastai \in { [ NoFastai EXCEPT !.fastai_version = a, !.fastcore_version = c ] :
                      a \in FastaiVersions, c \in FastcoreVersions }

NextFastai == CheckVersions

SpecFastai == InitFastai /\ [][NextFastai]_vars

(***************************************************************************)
(* Properties                                                              *)
(***************************************************************************)
Online(c) == ~c.local_files_only /\ c.pc # "idle"
Offline(c) == c.local_files_only /\ c.pc # "idle"
Returned(c) == c.pc = "returned"

\* the files a listing names, as a set
Names(listing) == { listing[i] : i \in 1..Len(listing) }

\* C1: after an online call has returned, every file the remote service
\* reported for the resolved commit exists in the returned folder at its
\* mirrored relative path, whatever the listing
C1_AllReportedFilesExist ==
    \A p \in Procs :
        (Online(call[p]) /\ Returned(call[p])) =>
            \A f \in Names(siblings[call[p].repo_id_sha]) :
                <<call[p].storage_folder, f>> \in DOMAIN files

RECURSIVE C2_Flatten(_)
\* flatten, component by component: the parts between "/" glued with "__"
C2_Flatten(parts) ==
    IF Len(parts) = 1 THEN parts[1]
    ELSE parts[1] \o <<"_", "_">> \o C2_Flatten(Tail(parts))

C2_Expected(R, V, S) ==
    IF V = S THEN C2_Flatten(Split(R, "/")) \o <<".">> \o V
    ELSE C2_Flatten(Split(R, "/")) \o <<".">> \o V \o <<".">> \o S

\* C2: an online call for repo R at revision V that resolved to commit S
\* returns <flatten(R)>.V when V = S and <flatten(R)>.V.S otherwise
C2_FolderName ==
    \A p \in Procs :
        (Online(call[p]) /\ Returned(call[p])) =>
            call[p].storage_folder =
                C2_Expected(call[p].repo_id, call[p].revision, call[p].repo_id_sha)

C2_Witness ==
    \E p \in Procs :
        /\ Online(call[p]) /\ Returned(call[p])
        /\ call[p].revision # call[p].repo_id_sha
        /\ Contains(call[p].repo_id, <<"/">>)
        /\ prev[p].pc = "returned" /\ ~prev[p].local_files_only
        /\ prev[p].revision = prev[p].repo_id_sha

SameRequest(c, d) == c.repo_id = d.repo_id /\ c.revision = d.revision

\* the previous call of p was an online call that returned
PrevOnlineReturned(p) == prev[p].pc = "returned" /\ ~prev[p].local_files_only

\* C3: two online calls in a row for the same (repo_id, revision) with the
\* remote unchanged return the same folder, and the second one fetches no
\* file that was already present in the folder
C3_SecondCallFetchesNothingPresent ==
    \A p \in Procs :
        ( /\ Online(call[p]) /\ Returned(call[p])
          /\ PrevOnlineReturned(p)
          /\ SameRequest(call[p], prev[p])
          /\ call[p].repo_id_sha = prev[p].repo_id_sha )
        => /\ call[p].storage_folder = prev[p].storage_folder
           /\ \A f \in call[p].present0 :
                 <<call[p].storage_folder, f>> \notin call[p].written

\* C4: when the commit a symbolic revision resolves to changes between two
\* online calls for the same (repo_id, revision), the calls return different
\* folders and the second call writes nothing into the first one's folder
C4_MovedBranchFreshFolder ==
    \A p \in Procs :
        ( /\ Online(call[p]) /\ Returned(call[p])
          /\ PrevOnlineReturned(p)
          /\ SameRequest(call[p], prev[p])
          /\ prev[p].revision # prev[p].repo_id_sha
          /\ call[p].repo_id_sha # prev[p].repo_id_sha )
        => /\ call[p].storage_folder # prev[p].storage_folder
           /\ \A w \in call[p].written : w[1] # prev[p].storage_folder

C4_Witness ==
    \E p \in Procs :
        /\ Online(call[p]) /\ Returned(call[p])
        /\ PrevOnlineReturned(p)
        /\ SameRequest(call[p], prev[p])
        /\ prev[p].revision # prev[p].repo_id_sha
        /\ call[p].repo_id_sha # prev[p].repo_id_sha
        /\ call[p].written # {}
        /\ prev[p].storage_folder \in folders

\* C5: two online calls for one repo_id with two different symbolic
\* revisions that resolve to two different commits return different folders
C5_TwoBranchesNeverCollide ==
    \A p \in Procs :
        ( /\ Online(call[p]) /\ Returned(call[p])
          /\ PrevOnlineReturned(p)
          /\ call[p].repo_id = prev[p].repo_id
          /\ call[p].revision # prev[p].revision
          /\ call[p].revision # call[p].repo_id_sha
          /\ prev[p].revision # prev[p].repo_id_sha
          /\ call[p].repo_id_sha # prev[p].repo_id_sha )
        => call[p].storage_folder # prev[p].storage_folder

C5_Witness ==
    \E p \in Procs :
        /\ Online(call[p]) /\ Returned(call[p])
        /\ PrevOnlineReturned(p)
        /\ call[p].repo_id = prev[p].repo_id
        /\ call[p].revision # prev[p].revision
        /\ call[p].revision # call[p].repo_id_sha
        /\ prev[p].revision # prev[p].repo_id_sha
        /\ call[p].repo_id_sha # prev[p].repo_id_sha
        /\ {call[p].storage_folder, prev[p].storage_folder} \subseteq folders

IsPrefix(a, s) == Len(a) <= Len(s) /\ SubSeq(s, 1, Len(a)) = a
IsSuffix(a, s) == Len(a) <= Len(s) /\ SubSeq(s, Len(s) - Len(a) + 1, Len(s)) = a

\* the three naming shapes of a cached folder for (flat, revision):
\* flat.revision.<x>, flat.revision, flat.<x>.revision
HasShape(f, flat, revision) ==
    \/ IsPrefix(flat \o <<".">> \o revision \o <<".">>, f)
    \/ f = flat \o <<".">> \o revision
    \/ /\ IsPrefix(flat \o <<".">>, f)
       /\ IsSuffix(<<".">> \o revision, f)
       /\ Len(f) >= Len(flat) + Len(revision) + 2

ShapeCandidates(c) ==
    { f \in folders : HasShape(f, C2_Flatten(Split(c.repo_id, "/")), c.revision) }

C7_OfflineMiss ==
    [][ \A p \in Procs :
          ( call[p].pc = "offline" /\ call'[p] # call[p]
              /\ ShapeCandidates(call[p]) = {} ) =>
                /\ call'[p].pc = "raised"
                /\ call'[p].error = "ValueError: no cached snapshot"
                /\ ~call'[p].warned
                /\ UNCHANGED cache ]_vars

C7_Witness ==
    \E p \in Procs :
        /\ Offline(call[p])
        /\ call[p].pc = "raised"
        /\ call[p].error = "ValueError: no cached snapshot"
        /\ \E f \in folders : IsPrefix(C2_Flatten(Split(call[p].repo_id, "/")), f)

\* C8: an offline call never calls the remote repository-info lookup
C8_OfflineNoLookup ==
    \A p \in Procs : Offline(call[p]) => call[p].lookups = 0

C8_Witness ==
    \E p \in Procs :
        /\ Offline(call[p]) /\ Returned(call[p])
        /\ call[p].listings = 1
        /\ PrevOnlineReturned(p)

\* C9 as stated: an offline call invokes the downloader zero times
C9_OfflineNoDownloaderCall ==
    \A p \in Procs : Offline(call[p]) => call[p].dlCalls = 0

\* C9 as amended: an offline call invokes the downloader only with
\* local_files_only set, writes no file, and when it returns it has invoked
\* the downloader once per entry of the selected folder
C9_OfflineDownloaderLocalOnly ==
    \A p \in Procs :
        Offline(call[p]) =>
            /\ call[p].offlineDl
            /\ call[p].written = {}
            /\ Returned(call[p]) =>
                  /\ call[p].dlCalls = Len(call[p].model_files)
                  /\ call[p].storage_folder \in call[p].candidates

C9_Witness ==
    \E p \in Procs :
        Offline(call[p]) /\ Returned(call[p]) /\ call[p].dlCalls >= 2

InvalidRepoId(repo_id) == repo_id = <<>> \/ Contains(repo_id, <<"_", "_">>)

\* C10: a call with an empty repo_id or one holding "__" is rejected before
\* any remote lookup, directory listing or creation, or downloader call
C10_InvalidRepoIdRejected ==
    \A p \in Procs :
        ( call[p].pc # "idle" /\ InvalidRepoId(call[p].repo_id) ) =>
            /\ call[p].lookups = 0
            /\ call[p].listings = 0
            /\ call[p].dlCalls = 0
            /\ call[p].created = {}
            /\ call[p].pc # "returned"

\* C11: online, when the repository-info lookup fails the call ends with the
\* lookup's own error after exactly one lookup, without a downloader call and
\* without creating anything under cache_dir
C11_LookupFailurePropagates ==
    [][ \A p \in Procs :
          ( call[p].pc = "online" /\ call'[p] # call[p] ) =>
             \/ call'[p].pc = "loop"
             \/ /\ call'[p].pc = "raised"
                /\ call'[p].remoteError \in LookupErrors(call[p].repo_id, call[p].revision)
                /\ call'[p].error = call'[p].remoteError
                /\ call'[p].lookups = 1
                /\ call'[p].dlCalls = 0
                /\ call'[p].created = {} /\ call'[p].written = {}
                /\ UNCHANGED cache ]_vars

C11_Witness ==
    \E p \in Procs :
        /\ Online(call[p])
        /\ call[p].pc = "raised"
        /\ call[p].error = "ConnectionError"
        /\ call[p].repo_id \in RemoteRepos
        /\ folders # {}

\* C12: over any sequence of calls no storage folder disappears and no file
\* other than a lock artifact of the downloader is ever removed from the cache,
\* whatever its name ends with
C12_OnlyLockArtifactsRemoved ==
    [][ /\ folders \subseteq folders'
        /\ subdirs \subseteq subdirs'
        /\ \A k \in DOMAIN files :
              files[k] # LockContent => k \in DOMAIN files' ]_vars

\* a folder of the repository under a commit-only name: flat.<x>, <x> without dot
CommitOnlyName(f, flat) ==
    /\ IsPrefix(flat \o <<".">>, f)
    /\ \A i \in (Len(flat) + 2)..Len(f) : f[i] # "."

\* a folder that matches the requested revision as flat.revision or flat.<x>.revision
MatchesAsCommit(f, flat, revision) ==
    \/ f = flat \o <<".">> \o revision
    \/ /\ IsPrefix(flat \o <<".">>, f)
       /\ IsSuffix(<<".">> \o revision, f)
       /\ Len(f) >= Len(flat) + Len(revision) + 2

C16_RediscoveryRoundTrip ==
    \A p \in Procs :
        ( /\ Offline(call[p]) /\ Finished(call[p])
          /\ PrevOnlineReturned(p)
          /\ ncalls.online = 1
          /\ call[p].repo_id = prev[p].repo_id
          /\ call[p].revision \in {prev[p].revision, prev[p].repo_id_sha} )
        => /\ Returned(call[p])
           /\ call[p].storage_folder = prev[p].storage_folder
           /\ call[p].lookups = 0

\* the previous call of p was an online call that a failing transfer ended
PrevOnlineInterrupted(p) == prev[p].pc = "raised" /\ ~prev[p].local_files_only

\* C14: an online call that a downloader failure interrupts leaves every file
\* it fetched before the failure in place, and a retry with the same
\* (repo_id, revision) against the same remote commit that completes returns
\* the same folder, holding every file the remote reports
C14_InterruptedThenRetried ==
    [][ \A p \in Procs :
          /\ ( Online(call[p]) /\ call[p].pc = "locked" /\ call'[p].pc = "raised" ) =>
                /\ call'[p].error = "DownloadError"
                /\ \A k \in call[p].written :
                      k \in DOMAIN files' /\ files'[k] = files[k]
          /\ ( /\ Online(call[p]) /\ call'[p].pc = "returned"
               /\ PrevOnlineInterrupted(p)
               /\ SameRequest(call[p], prev[p])
               /\ call[p].repo_id_sha = prev[p].repo_id_sha ) =>
                /\ call'[p].storage_folder = prev[p].storage_folder
                /\ \A f \in Names(siblings[call[p].repo_id_sha]) :
                      <<call'[p].storage_folder, f>> \in DOMAIN files' ]_vars

\* the lock artifact of the destination caller p is fetching
LockOf(p) == <<call[p].storage_folder, LockPath(Path(call[p]))>>

\* C15: with two callers of the same (repo_id, revision), while one caller's
\* downloader holds the lock artifact of a destination no step of the other
\* caller removes that lock artifact, and the two callers are never both
\* inside the downloader's locked section for the same destination
C15_FetchIsCriticalSection ==
    [][ \A p \in Procs :
          ( call[p].pc = "locked" /\ call'[p] = call[p] ) =>
              /\ LockOf(p) \in DOMAIN files => LockOf(p) \in DOMAIN files'
              /\ \A q \in Procs \ {p} :
                    call'[q].pc = "locked" => LockOf(q)' # LockOf(p) ]_vars

\* the index of the repository maps a tensor to a file whose header lacks it
DanglingIndex(repo) ==
    \E t \in DOMAIN repo.weight_map :
        t \notin DOMAIN repo.headers[repo.weight_map[t]].entries

\* a weight_map entry that points at no tensor of the file it names
DanglingReference(value) ==
    \E t \in DOMAIN value.weight_map :
        \/ value.weight_map[t] \notin DOMAIN value.files_metadata
        \/ t \notin DOMAIN value.files_metadata[value.weight_map[t]].tensors

\* C17: on a sharded repository whose index maps a tensor to a file whose
\* parsed header does not hold that tensor the reader fails with the
\* malformed-repo error, and it never returns a value with a dangling reference
C17_DanglingIndexRejected ==
    meta.pc # "idle" /\ meta.by = "get_safetensors_metadata" =>
        /\ ( meta.repo.has_index /\ DanglingIndex(meta.repo) ) =>
              meta.pc = "raised" /\ meta.error = "MalformedRepoError"
        /\ meta.pc = "returned" => ~DanglingReference(meta.value)

C17_Witness ==
    /\ meta.pc = "raised" /\ meta.by = "get_safetensors_metadata"
    /\ meta.error = "MalformedRepoError"
    /\ meta.repo.has_index /\ DanglingIndex(meta.repo)
    /\ DOMAIN meta.repo.weight_map = TensorNames

\* C18: every SafetensorsRepoMetadata value, however it was built, has exactly
\* one files_metadata entry and an empty weight_map when it is not sharded, and
\* when it is sharded every weight_map key is a tensor of the file it is mapped to
C18_RepoMetadataInvariant ==
    meta.pc = "returned" =>
        /\ ~meta.value.sharded =>
              /\ Cardinality(DOMAIN meta.value.files_metadata) = 1
              /\ DOMAIN meta.value.weight_map = {}
        /\ meta.value.sharded => ~DanglingReference(meta.value)

\* wait is inside its loop
InLoop == waiter.pc \in {"fetch", "sleep"}

C19_Safety ==
    /\ waiter.pc = "returned" =>
          endpoint.url # PyNone /\ Get(server.status, "url") # PyNone
    /\ waiter.url0 # PyNone => waiter.pc = "returned" /\ waiter.fetches = 0
    /\ ( waiter.pc = "raised" /\ waiter.timeout = PyNone ) =>
          waiter.error = "ValueError" /\ waiter.refresh_every <= 0 /\ waiter.fetches = 0

\* C19: wait returns only when the object has a url; without a timeout it
\* stays in its loop while the server reports no url and returns once the
\* server reports one; an endpoint that has a url when wait is called makes
\* it return without a fetch
C19_WaitUntilDeployed ==
    /\ []C19_Safety
    /\ [][ ( InLoop /\ waiter.timeout = PyNone /\ Get(server.status, "url") = PyNone
               /\ server' = server ) => InLoop' ]_vars
    /\ ( InLoop /\ waiter.timeout = PyNone /\ server = RunningRaw ) ~> waiter.pc = "returned"

C19_Witness ==
    /\ waiter.pc = "returned"
    /\ waiter.timeout = PyNone
    /\ waiter.url0 = PyNone
    /\ waiter.fetches >= 2

C20_Safety ==
    /\ ( waiter.pc = "raised" /\ waiter.error = "TimeoutError" ) =>
          /\ waiter.timeout # PyNone
          /\ ValueOf(waiter.timeout) >= 0
          /\ waiter.elapsed > ValueOf(waiter.timeout)
          /\ waiter.fetches >= 1
    /\ ( waiter.pc = "sleep" /\ waiter.timeout # PyNone ) =>
          waiter.elapsed <= ValueOf(waiter.timeout)

\* C20: with a timeout of zero or more, wait on an endpoint that never gets a
\* url ends with TimeoutError; it raises only when more than timeout seconds
\* have passed since it started and after at least one fetch, and it does not
\* go back to sleep once a fetch has found the timeout exceeded
C20_TimeoutRaised ==
    /\ []C20_Safety
    /\ [][ ( waiter.pc = "fetch" /\ waiter'.pc = "raised" ) =>
              endpoint'.url = PyNone /\ waiter'.error = "TimeoutError" ]_vars
    /\ ( InLoop /\ waiter.timeout # PyNone ) ~>
          ( waiter.pc = "returned" \/ ( waiter.pc = "raised" /\ waiter.error = "TimeoutError" ) )
    /\ ( InLoop /\ waiter.timeout # PyNone /\ server = FailedRaw ) ~>
          ( waiter.pc = "raised" /\ waiter.error = "TimeoutError" )

C20_Witness ==
    /\ waiter.pc = "raised" /\ waiter.error = "TimeoutError"
    /\ waiter.timeout = Some(0)
    /\ waiter.fetches = 2
    /\ server = FailedRaw

\* C29: whenever an online call returns, the folder it returns exists as a
\* directory under cache_dir, whatever the file listing, an empty one included
C29_ReturnedFolderExists ==
    \A p \in Procs :
        ( Online(call[p]) /\ Returned(call[p]) ) => call[p].storage_folder \in folders

\* C26: the cleanup that follows each file fetch leaves nothing at the file's
\* path + ".lock", whether or not the downloader left a lock artifact there,
\* and when a call returns no lock artifact is left in the returned folder
C26_NoLockArtifactLeft ==
    [][ \A p \in Procs :
          /\ ( call[p].pc = "cleanup" /\ call'[p] # call[p] ) =>
                /\ call'[p].pc = "loop"
                /\ LockOf(p) \notin DOMAIN files'
          /\ ( call'[p].pc = "returned" /\ call[p].pc # "returned" ) =>
                \A k \in DOMAIN files' :
                    k[1] = call'[p].storage_folder => files'[k] # LockContent ]_vars

C26_Witness ==
    \E p \in Procs :
        /\ Online(call[p]) /\ Returned(call[p])
        /\ siblings[call[p].repo_id_sha] = <<FileDB, FileA>>
        /\ {call[p].storage_folder} \X {<<"a", ".lock">>, <<"d", "/", "b", ".lock">>}
              \subseteq call[p].removed

\* C27: an online call makes one lookup and asks the downloader for every file
\* at the commit that lookup resolved, never at the symbolic revision, so the
\* files of the folder it returns all come from that commit, also when the
\* branch moves while the call runs
C27_OneCommitPerCall ==
    \A p \in Procs :
        Online(call[p]) =>
            /\ call[p].lookups <= 1
            /\ \A u \in call[p].urls :
                  u[3] = call[p].repo_id_sha /\ u[3] \in Shas
            /\ \A k \in call[p].written :
                  k \in DOMAIN files => files[k] = call[p].repo_id_sha
            /\ Returned(call[p]) =>
                  \A k \in DOMAIN files :
                      ( k[1] = call[p].storage_folder /\ files[k] # LockContent ) =>
                          files[k] = call[p].repo_id_sha

C27_Witness ==
    \E p \in Procs :
        /\ Online(call[p]) /\ call[p].pc = "locked"
        /\ call[p].revision = Branch
        /\ call[p].idx = 2 /\ call[p].written # {}
        /\ head # call[p].repo_id_sha

\* C28: an offline call for (R, V) returns only a folder that an online call
\* for the same R created, also when repo ids or revisions hold a ".": here,
\* when the one online call made so far returned, an offline call that returns
\* was made for the repository of that online call
C28_OfflineSameRepo ==
    \A p \in Procs :
        ( /\ Offline(call[p]) /\ Returned(call[p])
          /\ PrevOnlineReturned(p)
          /\ ncalls.online = 1 )
        => call[p].repo_id = prev[p].repo_id

\* the fields an InferenceEndpoint derives from raw agree with raw
DerivedFromRaw(e) ==
    /\ e.name = e.raw.name
    /\ e.repository = e.raw.model.repository
    /\ <<e.status>> = e.raw.status["state"]
    /\ IF "url" \in DOMAIN e.raw.status
       THEN e.url # {} /\ \A u \in e.url : <<u>> = e.raw.status["url"]
       ELSE e.url = {}
    /\ e.framework = e.raw.model.framework
    /\ e.revision = e.raw.model.revision
    /\ e.task = e.raw.model.task
    /\ e.type = e.raw.type

\* C21: after construction and after every fetch_latest_status, update, pause,
\* resume and scale_to_zero, in any order, the derived fields of the object
\* equal the entries of its raw dictionary, raw is what the server returned
\* last, and namespace, token and api are what they were at construction
C21_DerivedFieldsFollowRaw ==
    /\ [] DerivedFromRaw(endpoint)
    /\ [][ endpoint' # endpoint =>
              /\ endpoint'.raw = server'
              /\ endpoint'.namespace = endpoint.namespace
              /\ endpoint'.token = endpoint.token
              /\ endpoint'.api = endpoint.api ]_vars

C21_Witness ==
    /\ endpoint.status = "paused"
    /\ endpoint.url = PyNone
    /\ endpoint.repository = "bert"
    /\ endpoint.revision = "22"
    /\ endpoint.updated_at = 20

\* C22: client and async_client raise InferenceEndpointException exactly when
\* the object has no url; otherwise they return a client for the object's url
\* and token; neither changes the object
C22_ClientNeedsUrl ==
    [][ made' # made =>
          /\ made'.pc = "raised" <=> endpoint.url = PyNone
          /\ made'.pc = "raised" => made'.error = "InferenceEndpointException"
          /\ made'.pc = "returned" =>
                /\ \A u \in endpoint.url : made'.model = {u}
                /\ made'.token = endpoint.token
          /\ endpoint' = endpoint ]_vars

C22_Witness ==
    /\ made.pc = "returned"
    /\ made.kind = "AsyncInferenceClient"
    /\ made.model = Some("https://e")
    /\ endpoint.status = "running"

\* two metrics that name the same measure
SameNameAndType(a, b) == a.name = b.name /\ a.type = b.type
NoTwoAlike(list) ==
    \A i, j \in 1..Len(list) : i # j => ~SameNameAndType(list[i], list[j])
\* some new metric has the name and type of a metric of the list and another value
Conflicting(new_metrics, list) ==
    \E i \in 1..Len(new_metrics), k \in 1..Len(list) :
        SameNameAndType(new_metrics[i], list[k]) /\ new_metrics[i].value # list[k].value
\* the value of the last new metric that has the name and type of m
LastValue(new_metrics, m) ==
    LET alike == { i \in 1..Len(new_metrics) : SameNameAndType(new_metrics[i], m) }
    IN  new_metrics[CHOOSE i \in alike : \A j \in alike : j <= i].value

\* C23: _update_metadata_results_metric replaces the value of an existing
\* metric of the same name and type when overwrite is set, leaves it as it is
\* when overwrite is not set and the values are equal, raises ValueError when
\* overwrite is not set and the values differ, and appends a new metric that
\* matches none; so a list without two metrics of the same name and type
\* stays one, and applying the same new metrics a second time changes nothing.
C23_MetricsMerged ==
    (card.pc # "idle" /\ card.op = "_update_metadata_results_metric") =>
        LET new == card.new_metrics
            before == card.before
            after == card.existing_metrics
            kept == 1..Len(before)
        IN  /\ card.error \in {"", "ValueError"}
            /\ card.overwrite => card.error = ""
            /\ (~card.overwrite /\ Conflicting(new, before)) => card.error = "ValueError"
            /\ card.error = "ValueError" => (~card.overwrite /\ Conflicting(new, after))
            /\ Len(after) >= Len(before)
            /\ ~card.overwrite => SubSeq(after, 1, Len(before)) = before
            /\ \A k \in kept :
                  /\ SameNameAndType(after[k], before[k])
                  /\ after[k].value =
                        IF card.overwrite /\ \E i \in 1..Len(new) : SameNameAndType(new[i], before[k])
                        THEN LastValue(new, before[k])
                        ELSE before[k].value
            /\ \A k \in (1..Len(after)) \ kept :
                  /\ \E i \in 1..Len(new) : SameNameAndType(new[i], after[k])
                  /\ \A j \in 1..Len(after) : SameNameAndType(after[j], after[k]) => j >= k
            /\ card.error = "" =>
                  \A i \in 1..Len(new) :
                      /\ \E k \in 1..Len(after) : SameNameAndType(after[k], new[i])
                      /\ \A k \in 1..Len(after) :
                            SameNameAndType(after[k], new[i]) =>
                                after[k].value = IF card.overwrite THEN LastValue(new, new[i])
                                                 ELSE new[i].value
            /\ NoTwoAlike(before) => NoTwoAlike(after)
            /\ card.calls = 2 => (card.error = "" /\ after = before)

\* new metrics were applied twice with overwrite: the first time a value was
\* replaced and a metric appended
C23_Witness ==
    /\ card.pc = "merged"
    /\ card.op = "_update_metadata_results_metric"
    /\ card.calls = 2
    /\ card.overwrite
    /\ Len(card.existing_metrics) > Len(card.original)
    /\ \E k \in 1..Len(card.original) : card.existing_metrics[k].value # card.original[k].value

\* the key is in the card's block, with the given value / with another value
CardKeys == { card.downloaded.yaml[i][1] : i \in 1..Len(card.downloaded.yaml) }
CardValue(key) ==
    card.downloaded.yaml[CHOOSE i \in 1..Len(card.downloaded.yaml) :
                             card.downloaded.yaml[i][1] = key][2]
\* a key other than model-index that the card holds with another value
FieldConflict ==
    \E key \in (DOMAIN card.metadata \cap CardKeys) \ {"model-index"} :
        CardValue(key) # card.metadata[key]
\* a metric of the card and a given metric of the same name and type and
\* another value, in results that do or need not name the same dataset and task
MetricConflict(same_result) ==
    /\ "model-index" \in DOMAIN card.metadata \cap CardKeys
    /\ LET existing_results == CardValue("model-index")[1].results
           new_results == card.metadata["model-index"][1].results
       IN  \E i \in 1..Len(existing_results), n \in 1..Len(new_results) :
             /\ same_result =>
                   /\ existing_results[i].dataset = new_results[n].dataset
                   /\ existing_results[i].task = new_results[n].task
             /\ \E a \in 1..Len(existing_results[i].metrics),
                    b \in 1..Len(new_results[n].metrics) :
                   /\ SameNameAndType(existing_results[i].metrics[a], new_results[n].metrics[b])
                   /\ existing_results[i].metrics[a].value # new_results[n].metrics[b].value
\* what holds of every call of metadata_update, whatever made it raise
NoUploadOnErrorCacheKept ==
    /\ card.pc = "raised" => (card.uploads = 0 /\ card.readme = card.downloaded)
    /\ card.files["cache"] = card.downloaded

\* C24 as stated: without overwrite, metadata_update raises ValueError when a
\* given key is in the card with another value or a given metric has the name
\* and type of a metric of the card and another value; when it raises nothing
\* is uploaded, and the cached README is never modified.
C24_AnyConflictRaises ==
    (card.pc # "idle" /\ card.op = "metadata_update") =>
        /\ (~card.overwrite /\ (FieldConflict \/ MetricConflict(FALSE))) =>
               (card.pc = "raised" /\ card.error = "ValueError")
        /\ NoUploadOnErrorCacheKept

\* C24, amended: without overwrite, metadata_update raises ValueError when a
\* given key other than model-index is in the card with another value, or a
\* given metric has the name and type of a metric of the card and another
\* value in a result of the same dataset and task; when it raises nothing is
\* uploaded, and the cached README is never modified.
C24_ConflictInSameResultRaises ==
    (card.pc # "idle" /\ card.op = "metadata_update") =>
        /\ (~card.overwrite /\ (FieldConflict \/ MetricConflict(TRUE))) =>
               (card.pc = "raised" /\ card.error = "ValueError")
        /\ NoUploadOnErrorCacheKept

\* a call without overwrite raised on a metric of another value in a result of
\* the card, after a first key had been set on the temporary copy
C24_Witness ==
    /\ card.pc = "raised"
    /\ card.op = "metadata_update"
    /\ ~card.overwrite
    /\ card.error = "ValueError"
    /\ MetricConflict(TRUE)
    /\ ~FieldConflict
    /\ "license" \in DOMAIN card.metadata \ CardKeys
    /\ card.uploads = 0
    /\ card.files["cache"] = card.downloaded

\* a version that is installed and lower than the minimum asked for
BelowMinimum(installed, minimum) ==
    /\ installed # NA
    /\ TupleLess(Version(installed).release, Version(minimum).release)

\* C25: _check_fastai_fastcore_versions raises ImportError whenever fastai or
\* fastcore is not available (version "N/A"), whichever of the two is missing,
\* and whenever an installed version is below the required minimum.
C25_ImportErrorWhenUnfit ==
    fastai.pc # "idle" =>
        ((\/ fastai.fastai_version = NA
          \/ fastai.fastcore_version = NA
          \/ BelowMinimum(fastai.fastai_version, fastai.fastai_min_version)
          \/ BelowMinimum(fastai.fastcore_version, fastai.fastcore_min_version))
            => (fastai.pc = "raised" /\ fastai.error = "ImportError"))

====
